---- MODULE Spec2Model ----
(***************************************************************************)
(* Model of src/main.rs: three f32 mean reducers (scalar, AVX, chunked),   *)
(* the benchmark harness that warms them up and times them, and the table  *)
(* formatter.                                                              *)
(*                                                                         *)
(* f32 values are modelled exactly.  A finite positive f32 is the pair     *)
(* <<m, e>> standing for m * 2^e with 2^23 <= m < 2^24; zero is <<0, 0>>   *)
(* and NaN is <<-1, 0>>.  Every buffer element is positive (gen_range      *)
(* draws from 20.0..100.0), so sums never cancel, the sign of zero never   *)
(* shows in a result, and no sum reaches the f32 exponent limits.          *)
(***************************************************************************)
EXTENDS Integers, Sequences, FiniteSets, TLC

\* ------------------------------------------------------------------ f32

\* Width of the f32 significand, hidden bit included.
MantBits == 24

Zero == <<0, 0>>
NaN == <<-1, 0>>

IsNaN(a) == a[1] < 0

\* Number of binary digits of S, for 0 < S < 2^30.
BitLen(S) == CHOOSE L \in 1..30 : 2^(L - 1) <= S /\ S < 2^L

\* The f32 nearest to S * 2^e, ties to even (0 < S < 2^30; a sticky bit
\* folded into the lowest bit of S stands for discarded non-zero digits).
RoundNorm(S, e) ==
    LET L == BitLen(S) IN
    IF L <= MantBits
    THEN <<S * 2^(MantBits - L), e - (MantBits - L)>>
    ELSE LET sh == L - MantBits
             q == S \div 2^sh
             r == S % 2^sh
             half == 2^(sh - 1)
             q1 == IF r > half \/ (r = half /\ q % 2 = 1) THEN q + 1 ELSE q
         IN IF q1 = 2^MantBits
            THEN <<2^(MantBits - 1), e + sh + 1>>
            ELSE <<q1, e + sh>>

\* f32 addition of two non-negative values, correctly rounded.
Add(a, b) ==
    IF IsNaN(a) \/ IsNaN(b) THEN NaN
    ELSE IF a = Zero THEN b
    ELSE IF b = Zero THEN a
    ELSE LET hi == IF a[2] >= b[2] THEN a ELSE b
             lo == IF a[2] >= b[2] THEN b ELSE a
             d == hi[2] - lo[2]
         IN IF d > MantBits THEN hi
            ELSE LET x == lo[1] * 8
                     q == x \div 2^d
                     st == IF x % 2^d # 0 /\ q % 2 = 0 THEN 1 ELSE 0
                 IN RoundNorm(hi[1] * 8 + q + st, hi[2] - 3)

\* floor(r * 2^k / b) with the remainder left over, digit by digit.
RECURSIVE LongDiv(_, _, _, _)
LongDiv(q, r, b, k) ==
    IF k = 0 THEN <<q, r>>
    ELSE IF 2 * r >= b THEN LongDiv(2 * q + 1, 2 * r - b, b, k - 1)
    ELSE LongDiv(2 * q, 2 * r, b, k - 1)

\* f32 division of non-negative values, correctly rounded (0/0 is NaN; the
\* harness never divides a non-zero sum by zero).
Div(a, b) ==
    IF IsNaN(a) \/ IsNaN(b) \/ b = Zero THEN NaN
    ELSE IF a = Zero THEN Zero
    ELSE LET qr == LongDiv(a[1] \div b[1], a[1] % b[1], b[1], MantBits + 2)
             st == IF qr[2] # 0 /\ qr[1] % 2 = 0 THEN 1 ELSE 0
         IN RoundNorm(qr[1] + st, a[2] - b[2] - (MantBits + 2))

\* `n as f32` for a usize n < 2^30.
FromNat(n) == IF n = 0 THEN Zero ELSE RoundNorm(n, 0)

\* Exact order on non-negative f32 values.
Less(a, b) ==
    IF b = Zero THEN FALSE
    ELSE IF a = Zero THEN TRUE
    ELSE a[2] < b[2] \/ (a[2] = b[2] /\ a[1] < b[1])

\* (a - b).abs() for non-negative f32 values, correctly rounded.
AbsDiff(a, b) ==
    IF IsNaN(a) \/ IsNaN(b) THEN NaN
    ELSE IF a = b THEN Zero
    ELSE IF a = Zero THEN b
    ELSE IF b = Zero THEN a
    ELSE LET big == IF Less(a, b) THEN b ELSE a
             small == IF Less(a, b) THEN a ELSE b
             d == big[2] - small[2]
         IN IF d <= 6 THEN RoundNorm(big[1] * 2^d - small[1], small[2])
            ELSE IF d > MantBits + 6 THEN big
            ELSE LET q == small[1] \div 2^(d - 6)
                     exact == small[1] % 2^(d - 6) = 0
                     S == IF exact THEN big[1] * 64 - q ELSE big[1] * 64 - q - 1
                     st == IF ~exact /\ S % 2 = 0 THEN 1 ELSE 0
                 IN RoundNorm(S + st, big[2] - 6)

\* f32::max of non-negative values (a NaN operand yields the other one).
Max(a, b) ==
    IF IsNaN(a) THEN b
    ELSE IF IsNaN(b) THEN a
    ELSE IF Less(a, b) THEN b ELSE a

\* data.iter().sum::<f32>() over data[lo..hi] (1-based, inclusive) continuing
\* from acc: one left-to-right chain of additions.  The recursion halves the
\* range only to keep the evaluation shallow; the additions happen in index
\* order (a NaN stays NaN whatever is added to it).
RECURSIVE FoldAdd(_, _, _, _)
FoldAdd(acc, d, lo, hi) ==
    IF lo > hi THEN acc
    ELSE IF lo = hi THEN Add(acc, d[lo])
    ELSE LET mid == (lo + hi) \div 2
             left == FoldAdd(acc, d, lo, mid)
         IN IF IsNaN(left) THEN NaN ELSE FoldAdd(left, d, mid + 1, hi)

iter_sum(d) == FoldAdd(Zero, d, 1, Len(d))

\* ------------------------------------------------------------- reducers

\* fn calculate_mean_scalar: sum in index order, divide by the length.
calculate_mean_scalar(d) == Div(iter_sum(d), FromNat(Len(d)))

\* Lanes of a 256-bit register of f32, and the stride of the AVX loop.
Lanes == 8

\* _mm256_setzero_ps()
mm256_setzero == <<Zero, Zero, Zero, Zero, Zero, Zero, Zero, Zero>>

\* _mm256_loadu_ps(data.as_ptr().add(i)): the 8 floats at offsets i .. i+7
\* (offset o is d[o + 1]).
mm256_loadu(d, i) ==
    <<d[i + 1], d[i + 2], d[i + 3], d[i + 4],
      d[i + 5], d[i + 6], d[i + 7], d[i + 8]>>

\* _mm256_add_ps: lane-wise addition.
mm256_add(x, y) ==
    <<Add(x[1], y[1]), Add(x[2], y[2]), Add(x[3], y[3]), Add(x[4], y[4]),
      Add(x[5], y[5]), Add(x[6], y[6]), Add(x[7], y[7]), Add(x[8], y[8])>>

\* A loop that also takes the last, partial group.
AvxGuard_partial(i, n) == i < n

\* The condition of `while i + 8 <= data.len()`.
AvxGuard(i, n) == i + Lanes <= n

\* One pass of the AVX loop from the state <<sum, i>>: the body when the
\* condition holds, nothing once it has failed.
AvxStep(st, d) ==
    IF AvxGuard(st[2], Len(d))
    THEN <<mm256_add(st[1], mm256_loadu(d, st[2])), st[2] + Lanes>>
    ELSE st

\* Up to 2^k passes of the loop, in order.
RECURSIVE AvxRun(_, _, _)
AvxRun(st, d, k) ==
    IF k = 0 THEN AvxStep(st, d)
    ELSE LET half == AvxRun(st, d, k - 1)
         IN IF AvxGuard(half[2], Len(d)) THEN AvxRun(half, d, k - 1) ELSE half

\* The whole AVX loop: <<sum, i>> at its exit.  The loop leaves after at
\* most Len(d) passes, and 2^BitLen(Len(d) + 1) is more than that.
AvxLoop(d) == AvxRun(<<mm256_setzero, 0>>, d, BitLen(Len(d) + 1))

\* unsafe fn calculate_mean_simd_avx
calculate_mean_simd_avx(d) ==
    LET lp == AvxLoop(d)
        simd_sum == iter_sum(lp[1])
        remaining_sum == FoldAdd(Zero, d, lp[2] + 1, Len(d))
    IN Div(Add(simd_sum, remaining_sum), FromNat(Len(d)))

CHUNK_SIZE == 8

\* data.chunks_exact(CHUNK_SIZE): the number of full chunks; chunk g
\* (1-based) is d[ChunkLo(g) .. ChunkHi(g)], the remainder what follows.
NumChunks(d) == Len(d) \div CHUNK_SIZE
ChunkLo(g) == (g - 1) * CHUNK_SIZE + 1
ChunkHi(g) == g * CHUNK_SIZE
RemainderLo_skip(d) == NumChunks(d) * CHUNK_SIZE + 2
RemainderLo(d) == NumChunks(d) * CHUNK_SIZE + 1

\* chunks.map(|chunk| chunk.iter().sum::<f32>()).sum() over chunks lo..hi,
\* continuing from acc, in chunk order.
RECURSIVE FoldChunks(_, _, _, _)
FoldChunks(acc, d, lo, hi) ==
    IF lo > hi THEN acc
    ELSE IF lo = hi THEN Add(acc, FoldAdd(Zero, d, ChunkLo(lo), ChunkHi(lo)))
    ELSE LET mid == (lo + hi) \div 2
             left == FoldChunks(acc, d, lo, mid)
         IN IF IsNaN(left) THEN NaN ELSE FoldChunks(left, d, mid + 1, hi)

\* fn calculate_mean_chunks
calculate_mean_chunks(d) ==
    LET chunk_sum == FoldChunks(Zero, d, 1, NumChunks(d))
        remainder_sum == FoldAdd(Zero, d, RemainderLo(d), Len(d))
    IN Div(Add(chunk_sum, remainder_sum), FromNat(Len(d)))

\* The two fallbacks exchanged.
simd_path_swapped(a, f) ==
    IF a = "x86_64"
    THEN (IF f THEN "avx" ELSE "chunks")
    ELSE "scalar"

\* Which implementation calculate_mean_simd runs: the cfg(target_arch)
\* selection at build time, then is_x86_feature_detected!("avx") per call.
simd_path(a, f) ==
    IF a = "x86_64"
    THEN (IF f THEN "avx" ELSE "scalar")
    ELSE "chunks"

\* fn calculate_mean_simd (both cfg variants)
calculate_mean_simd(a, f, d) ==
    CASE simd_path(a, f) = "avx" -> calculate_mean_simd_avx(d)
      [] simd_path(a, f) = "scalar" -> calculate_mean_scalar(d)
      [] simd_path(a, f) = "chunks" -> calculate_mean_chunks(d)

\* ------------------------------------------------------------ formatter

\* A String is the sequence of its characters.
Digits == <<"0", "1", "2", "3", "4", "5", "6", "7", "8", "9">>

\* usize::to_string: the decimal digits, most significant first.
RECURSIVE to_string(_)
to_string(n) ==
    IF n < 10 THEN <<Digits[n + 1]>>
    ELSE Append(to_string(n \div 10), Digits[(n % 10) + 1])

\* Thresholds taken as exclusive.
format_size_exclusive(n) ==
    IF n > 1000000 THEN Append(to_string(n \div 1000000), "M")
    ELSE IF n > 1000 THEN Append(to_string(n \div 1000), "K")
    ELSE to_string(n)

\* fn format_size
format_size(n) ==
    IF n >= 1000000 THEN Append(to_string(n \div 1000000), "M")
    ELSE IF n >= 1000 THEN Append(to_string(n \div 1000), "K")
    ELSE to_string(n)

\* |a - b| < 10^-4 * max(a, b), exactly, for non-negative f32 values: the
\* relative error of one result against the other, measured against the
\* larger of the two.
RelClose(a, b) ==
    IF IsNaN(a) \/ IsNaN(b) THEN FALSE
    ELSE IF a = b THEN TRUE
    ELSE IF a = Zero \/ b = Zero THEN FALSE
    ELSE LET big == IF Less(a, b) THEN b ELSE a
             small == IF Less(a, b) THEN a ELSE b
             d == big[2] - small[2]
         IN IF d >= 2 THEN FALSE
            ELSE LET B == big[1] * 2^d
                 IN B - small[1] <= (B - 1) \div 10000

\* ---------------------------------------------------------- sample data

\* f32 values of the range rng.gen_range(20.0..100.0) draws from:
\* 20.0, 35.94536209106445, 60.624732971191406 and 99.99999237060547.
Vals == << <<10485760, -19>>, <<9422861, -18>>, <<15892410, -18>>,
           <<13107199, -17>> >>

\* Longest buffer enumerated element by element, and the length of the one
\* long buffer.
MaxN == 17
LongLen == 7064

\* A buffer of n values: element j (1-based) is Vals[(a * j + b) mod 4];
\* a = 0 gives n identical values.
SampleBuffer(n, a, b) == [j \in 1..n |-> Vals[((a * j + b) % Len(Vals)) + 1]]

ShortBuffers ==
    {SampleBuffer(n, a, b) : n \in 0..MaxN, a \in 0..1, b \in 0..(Len(Vals) - 1)}

LongBuffers == {SampleBuffer(LongLen, 0, 1)}

IsConstant(d) == \A j \in 1..Len(d) : d[j] = d[1]

\* ---------------------------------------------------------------- state

VARIABLES
    arch,       \* target_arch the binary was built for
    avx,        \* what is_x86_feature_detected!("avx") answers on this CPU
    data,       \* the sample buffer
    pc,         \* position in the code of the specification at hand
    means,      \* results of the reducers called so far
    path,       \* implementation calculate_mean_simd last ran
    \* one reducer, statement by statement
    alg,        \* the reducer running
    i,          \* offset of the next element of the group loop
    reg,        \* the AVX accumulator `sum`
    group_sum,  \* sum / simd_sum / chunk_sum
    rest_sum,   \* remaining_sum / remainder_sum
    result,     \* the value returned
    loads,      \* offsets at which an 8-wide load or an 8-chunk started
    reads,      \* offsets read so far
    adds,       \* offset -> times that element went into the sum
    tail,       \* offsets the remainder path summed, in order
    passes,     \* group loop bodies run
    \* main and benchmark_size
    k,          \* 1-based position in `sizes` of the size at hand
    warm,       \* warmup rounds completed
    since,      \* clock ticks since the last Instant::now()
    loc,        \* benchmark_size's locals: the three means, the three times
    results,    \* the BenchmarkResults main holds
    printed,    \* first column of every line written so far
    row,        \* the table row written by the latest println!
    log,        \* what ran for the size at hand, in order, with its value
    \* format_size on its own
    size,       \* the argument
    label       \* the String returned

meansVars == <<means, path>>
stepVars ==
    <<alg, i, reg, group_sum, rest_sum, result, loads, reads, adds, tail, passes>>
benchVars == <<k, warm, since, loc, results, printed, row, log>>
fmtVars == <<size, label>>
vars == <<arch, avx, data, pc, meansVars, stepVars, benchVars, fmtVars>>

None == <<-2, 0>>

\* The statement-level variables while no reducer is being stepped.
StepsIdle ==
    /\ alg = "none"
    /\ i = 0
    /\ reg = mm256_setzero
    /\ group_sum = Zero
    /\ rest_sum = Zero
    /\ result = None
    /\ loads = {}
    /\ reads = {}
    /\ adds = <<>>
    /\ tail = <<>>
    /\ passes = 0

MeansIdle ==
    /\ means = [scalar |-> None, simd |-> None, chunk |-> None]
    /\ path = "none"

NoTime == -1

NoLocals ==
    [scalar_mean |-> None, simd_mean |-> None, chunk_mean |-> None,
     scalar_time |-> NoTime, simd_time |-> NoTime, chunk_time |-> NoTime]

\* No row written: the label of a row is never empty.
NoRow ==
    [label |-> <<>>, scalar_ns |-> NoTime, simd_ns |-> NoTime,
     chunk_ns |-> NoTime, simd_speedup |-> <<0, 1>>,
     chunk_speedup |-> <<0, 1>>, max_diff |-> None]

BenchIdle ==
    /\ k = 0
    /\ warm = 0
    /\ since = 0
    /\ loc = NoLocals
    /\ results = NoLocals
    /\ printed = <<>>
    /\ row = NoRow
    /\ log = <<>>

FmtIdle ==
    /\ size = 0
    /\ label = <<>>

Platforms ==
    {<<"x86_64", TRUE>>, <<"x86_64", FALSE>>, <<"other", FALSE>>}

\* ----------------------------------------- the reducers as pure functions

InitMeans ==
    /\ \E p \in Platforms : arch = p[1] /\ avx = p[2]
    /\ data \in ShortBuffers \cup LongBuffers
    /\ pc = "means"
    /\ means = [scalar |-> None, simd |-> None, chunk |-> None]
    /\ path = "none"
    /\ StepsIdle
    /\ BenchIdle
    /\ FmtIdle

MeanScalar ==
    /\ pc = "means"
    /\ means.scalar = None
    /\ means' = [means EXCEPT !.scalar = calculate_mean_scalar(data)]
    /\ UNCHANGED <<arch, avx, data, pc, path, stepVars, benchVars, fmtVars>>

MeanSimd ==
    /\ pc = "means"
    /\ means.simd = None
    /\ means' = [means EXCEPT !.simd = calculate_mean_simd(arch, avx, data)]
    /\ path' = simd_path(arch, avx)
    /\ UNCHANGED <<arch, avx, data, pc, stepVars, benchVars, fmtVars>>

MeanChunks ==
    /\ pc = "means"
    /\ means.chunk = None
    /\ means' = [means EXCEPT !.chunk = calculate_mean_chunks(data)]
    /\ UNCHANGED <<arch, avx, data, pc, path, stepVars, benchVars, fmtVars>>

NextMeans == MeanScalar \/ MeanSimd \/ MeanChunks

SpecMeans == InitMeans /\ [][NextMeans]_vars

AllMeans == means.scalar # None /\ means.simd # None /\ means.chunk # None

\* C3: for every non-empty buffer the three reducers' results agree
\* pairwise with relative error below 10^-4.
C3_Agreement ==
    (AllMeans /\ Len(data) >= 1) =>
        /\ RelClose(means.scalar, means.simd)
        /\ RelClose(means.scalar, means.chunk)
        /\ RelClose(means.simd, means.chunk)

\* C4: for a buffer of N >= 1 identical values v, every reducer returns
\* exactly v.
C4_ConstantExact ==
    (AllMeans /\ Len(data) >= 1 /\ IsConstant(data)) =>
        /\ means.scalar = data[1]
        /\ means.simd = data[1]
        /\ means.chunk = data[1]

Offsets(d) == 0..(Len(d) - 1)

\* Values an out-of-bounds read may produce (never read by the code as
\* written: every offset it reads is below the length).
Junk == {Zero} \cup {Vals[j] : j \in 1..Len(Vals)}

\* The float at offset o of the buffer's memory.
At(d, o, junk) == IF o < Len(d) THEN d[o + 1] ELSE junk

\* adds with every offset of os counted once more.
Count(f, os) == [o \in DOMAIN f |-> IF o \in os THEN f[o] + 1 ELSE f[o]]

\* lo, lo + 1, ..., hi - 1 as a sequence.
Range(lo, hi) == [j \in 1..(IF hi > lo THEN hi - lo ELSE 0) |-> lo + j - 1]

InitSteps ==
    /\ arch = "x86_64"
    /\ avx = TRUE
    /\ data \in ShortBuffers
    /\ alg \in {"scalar", "avx", "chunks"}
    /\ pc = "loop"
    /\ i = 0
    /\ reg = mm256_setzero
    /\ group_sum = Zero
    /\ rest_sum = Zero
    /\ result = None
    /\ loads = {}
    /\ reads = {}
    /\ adds = [o \in Offsets(data) |-> 0]
    /\ tail = <<>>
    /\ passes = 0
    /\ MeansIdle
    /\ BenchIdle
    /\ FmtIdle

\* data.iter().sum(): the next element.
ScalarAdd ==
    /\ alg = "scalar" /\ pc = "loop"
    /\ i < Len(data)
    /\ group_sum' = Add(group_sum, data[i + 1])
    /\ reads' = reads \cup {i}
    /\ adds' = Count(adds, {i})
    /\ i' = i + 1
    /\ UNCHANGED <<benchVars, fmtVars, arch, avx, data, pc, meansVars, alg, reg, rest_sum, result,
                   loads, tail, passes>>

\* sum / data.len() as f32
ScalarDiv ==
    /\ alg = "scalar" /\ pc = "loop"
    /\ i >= Len(data)
    /\ result' = Div(group_sum, FromNat(Len(data)))
    /\ pc' = "done"
    /\ UNCHANGED <<benchVars, fmtVars, arch, avx, data, meansVars, alg, i, reg, group_sum, rest_sum,
                   loads, reads, adds, tail, passes>>

\* One body of `while i + 8 <= data.len()`: an unchecked 8-wide load at i,
\* a lane-wise add, i += 8.
AvxPass ==
    /\ alg = "avx" /\ pc = "loop"
    /\ AvxGuard(i, Len(data))
    /\ \E junk \in Junk :
           reg' = mm256_add(reg, [j \in 1..Lanes |-> At(data, i + j - 1, junk)])
    /\ loads' = loads \cup {i}
    /\ reads' = reads \cup {i + j - 1 : j \in 1..Lanes}
    /\ adds' = Count(adds, {i + j - 1 : j \in 1..Lanes})
    /\ i' = i + Lanes
    /\ passes' = passes + 1
    /\ UNCHANGED <<benchVars, fmtVars, arch, avx, data, pc, meansVars, alg, group_sum, rest_sum,
                   result, tail>>

\* The loop is left: _mm256_storeu_ps into `result`, then result.iter().sum().
AvxSpill ==
    /\ alg = "avx" /\ pc = "loop"
    /\ ~AvxGuard(i, Len(data))
    /\ group_sum' = iter_sum(reg)
    /\ pc' = "tail"
    /\ UNCHANGED <<benchVars, fmtVars, arch, avx, data, meansVars, alg, i, reg, rest_sum, result,
                   loads, reads, adds, tail, passes>>

\* data[i..].iter().sum(): the slice panics when i is beyond the length.
AvxTail ==
    /\ alg = "avx" /\ pc = "tail"
    /\ IF i > Len(data)
       THEN /\ pc' = "panic"
            /\ UNCHANGED <<rest_sum, reads, adds, tail>>
       ELSE /\ rest_sum' = FoldAdd(Zero, data, i + 1, Len(data))
            /\ reads' = reads \cup (i..(Len(data) - 1))
            /\ adds' = Count(adds, i..(Len(data) - 1))
            /\ tail' = Range(i, Len(data))
            /\ pc' = "div"
    /\ UNCHANGED <<benchVars, fmtVars, arch, avx, data, meansVars, alg, i, reg, group_sum, result,
                   loads, passes>>

\* (simd_sum + remaining_sum) / data.len() as f32, and the same line of
\* calculate_mean_chunks.
GroupDiv ==
    /\ alg \in {"avx", "chunks"} /\ pc = "div"
    /\ result' = Div(Add(group_sum, rest_sum), FromNat(Len(data)))
    /\ pc' = "done"
    /\ UNCHANGED <<benchVars, fmtVars, arch, avx, data, meansVars, alg, i, reg, group_sum, rest_sum,
                   loads, reads, adds, tail, passes>>

\* The next chunk of chunks_exact(CHUNK_SIZE): its sum, added to chunk_sum.
ChunkPass ==
    /\ alg = "chunks" /\ pc = "loop"
    /\ passes < NumChunks(data)
    /\ group_sum' =
           Add(group_sum, FoldAdd(Zero, data, ChunkLo(passes + 1), ChunkHi(passes + 1)))
    /\ loads' = loads \cup {ChunkLo(passes + 1) - 1}
    /\ reads' = reads \cup ((ChunkLo(passes + 1) - 1)..(ChunkHi(passes + 1) - 1))
    /\ adds' = Count(adds, (ChunkLo(passes + 1) - 1)..(ChunkHi(passes + 1) - 1))
    /\ i' = ChunkHi(passes + 1)
    /\ passes' = passes + 1
    /\ UNCHANGED <<benchVars, fmtVars, arch, avx, data, pc, meansVars, alg, reg, rest_sum, result, tail>>

\* remainder.iter().sum(), once every full chunk is summed.
ChunkTail ==
    /\ alg = "chunks" /\ pc = "loop"
    /\ passes >= NumChunks(data)
    /\ rest_sum' = FoldAdd(Zero, data, RemainderLo(data), Len(data))
    /\ reads' = reads \cup ((RemainderLo(data) - 1)..(Len(data) - 1))
    /\ adds' = Count(adds, (RemainderLo(data) - 1)..(Len(data) - 1))
    /\ tail' = Range(RemainderLo(data) - 1, Len(data))
    /\ pc' = "div"
    /\ UNCHANGED <<benchVars, fmtVars, arch, avx, data, meansVars, alg, i, reg, group_sum, result,
                   loads, passes>>

NextSteps ==
    \/ ScalarAdd
    \/ ScalarDiv
    \/ AvxPass
    \/ AvxSpill
    \/ AvxTail
    \/ GroupDiv
    \/ ChunkPass
    \/ ChunkTail

SpecSteps == InitSteps /\ [][NextSteps]_vars

\* The statement-level run of a reducer returns what the reducer, taken as a
\* function of the buffer, returns.
StepsAgreeWithFunctions ==
    pc = "done" =>
        result = CASE alg = "scalar" -> calculate_mean_scalar(data)
                   [] alg = "avx" -> calculate_mean_simd_avx(data)
                   [] alg = "chunks" -> calculate_mean_chunks(data)

\* C1: the AVX and the chunked reducer read only offsets 0 .. N-1, start
\* every group of 8 at an offset l with l + 8 <= N, leave the AVX loop with
\* i = 8 * floor(N / 8), add every element into the sum exactly once, and
\* sum no element in the remainder path when N is a multiple of 8.
C1_GroupsInBounds ==
    alg \in {"avx", "chunks"} =>
        /\ pc # "panic"
        /\ \A o \in reads : 0 <= o /\ o < Len(data)
        /\ \A l \in loads : l + 8 <= Len(data)
        /\ \A o \in DOMAIN adds : adds[o] <= 1
        /\ (alg = "avx" /\ pc \in {"tail", "div", "done"}) =>
               i = 8 * (Len(data) \div 8)
        /\ pc \in {"div", "done"} =>
               /\ \A o \in 0..(Len(data) - 1) : adds[o] = 1
               /\ reads = 0..(Len(data) - 1)
               /\ Len(data) % 8 = 0 => (tail = <<>> /\ rest_sum = Zero)

\* The AVX reducer has finished a buffer of two full groups and no tail.
C1_Witness ==
    /\ alg = "avx"
    /\ pc = "done"
    /\ Len(data) = 16
    /\ passes = 2
    /\ loads = {0, 8}
    /\ tail = <<>>

\* C2: on a buffer of 0 < N < 8 elements the AVX and the chunked reducer
\* run no group body, their group sum is zero, the remainder path sums
\* offsets 0 .. N-1 in that order, and the mean returned is the scalar
\* reducer's.
C2_ShortBuffer ==
    (alg \in {"avx", "chunks"} /\ 0 < Len(data) /\ Len(data) < 8) =>
        /\ passes = 0
        /\ loads = {}
        /\ group_sum = Zero
        /\ pc \in {"div", "done"} =>
               /\ tail = [j \in 1..Len(data) |-> j - 1]
               /\ rest_sum = iter_sum(data)
        /\ pc = "done" => result = calculate_mean_scalar(data)

\* The chunked reducer has finished a buffer of 7 values that are not all
\* the same.
C2_Witness ==
    /\ alg = "chunks"
    /\ pc = "done"
    /\ Len(data) = 7
    /\ ~IsConstant(data)
    /\ Len(tail) = 7
    /\ result = calculate_mean_scalar(data)

\* ------------------------------------------------- format_size on its own

\* Sizes format_size is applied to: those within Window of a landmark.
Window == 25
Landmarks ==
    {0, 500, 1000, 2000, 50000, 1000000, 1500000, 2000000, 100000000}
FormatInputs ==
    {s \in {l + x : l \in Landmarks, x \in (0 - Window)..Window} : s >= 0}

InitFormat ==
    /\ arch = "x86_64"
    /\ avx = TRUE
    /\ data = <<>>
    /\ pc = "format"
    /\ size \in FormatInputs
    /\ label = <<>>
    /\ MeansIdle
    /\ StepsIdle
    /\ BenchIdle

FormatCall ==
    /\ pc = "format"
    /\ label' = format_size(size)
    /\ pc' = "formatted"
    /\ UNCHANGED <<arch, avx, data, size, meansVars, stepVars, benchVars>>

NextFormat == FormatCall

SpecFormat == InitFormat /\ [][NextFormat]_vars

\* The number a digit string writes, and whether a string is the canonical
\* decimal writing of a number.
DigitValue(c) ==
    CASE c = "0" -> 0 [] c = "1" -> 1 [] c = "2" -> 2 [] c = "3" -> 3
      [] c = "4" -> 4 [] c = "5" -> 5 [] c = "6" -> 6 [] c = "7" -> 7
      [] c = "8" -> 8 [] c = "9" -> 9

RECURSIVE DecimalValue(_)
DecimalValue(t) ==
    IF Len(t) = 0 THEN 0
    ELSE 10 * DecimalValue(SubSeq(t, 1, Len(t) - 1)) + DigitValue(t[Len(t)])

IsDecimal(t) ==
    /\ Len(t) >= 1
    /\ \A j \in 1..Len(t) : \E c \in 0..9 : t[j] = Digits[c + 1]
    /\ Len(t) > 1 => t[1] # "0"

Front(t) == SubSeq(t, 1, Len(t) - 1)

\* C8: format_size writes floor(n / 1,000,000) and "M" from 1,000,000 up,
\* floor(n / 1,000) and "K" from 1,000 up, and n itself below that.
C8_FormatSize ==
    pc = "formatted" =>
        /\ size >= 1000000 =>
               /\ label[Len(label)] = "M"
               /\ IsDecimal(Front(label))
               /\ DecimalValue(Front(label)) = size \div 1000000
        /\ (size >= 1000 /\ size < 1000000) =>
               /\ label[Len(label)] = "K"
               /\ IsDecimal(Front(label))
               /\ DecimalValue(Front(label)) = size \div 1000
        /\ size < 1000 => (IsDecimal(label) /\ DecimalValue(label) = size)
        /\ size = 1500000 => label = <<"1", "M">>
        /\ size = 1999 => label = <<"1", "K">>
        /\ size = 999 => label = <<"9", "9", "9">>
        /\ size = 1000 => label = <<"1", "K">>
        /\ size = 999999 => label = <<"9", "9", "9", "K">>
        /\ size = 1000000 => label = <<"1", "M">>
        /\ size = 500 => label = <<"5", "0", "0">>
        /\ size = 50000 => label = <<"5", "0", "K">>
        /\ size = 100000000 => label = <<"1", "0", "0", "M">>

\* A size that is no multiple of a million has been written in millions.
C8_Witness ==
    /\ pc = "formatted"
    /\ size = 1500000
    /\ label = <<"1", "M">>

\* --------------------------------------------------- main, benchmark_size

\* let sizes = [500, 1000, 50000, 1000000, 100000000];
sizes == <<500, 1000, 50000, 1000000, 100000000>>

\* `for _ in 0..3`
WarmupRounds_two == 3 - 1
WarmupRounds == 3

\* A buffer keeps its length modulo 8 and at most MaxGroups full groups of
\* 8: ModelLen(n) elements stand for the n elements generated.
MaxGroups == 1
ModelLen(n) ==
    8 * (IF n \div 8 < MaxGroups THEN n \div 8 ELSE MaxGroups) + (n % 8)

\* One element too few.
generate_short(n) ==
    {SampleBuffer(ModelLen(n) - 1, a, b) : a \in 0..1, b \in 0..1}

\* (0..size).map(|_| rng.gen_range(20.0..100.0)).collect(): the buffers
\* the generator may produce for a requested size.
generate(n) == {SampleBuffer(ModelLen(n), a, b) : a \in 0..1, b \in 0..1}

\* A timed call takes 0 .. MaxTicks ticks of the clock, TickNs ns each.
MaxTicks == 2
TickNs == 100

\* f64 division, IEEE 754: a quotient is the pair <<p, q>> in lowest terms
\* (the rounding of the quotient to 53 bits is left out); x / 0 is
\* <<1, 0>> (infinity) for x > 0 and <<0, 0>> (NaN) for x = 0.
RECURSIVE Gcd(_, _)
Gcd(a, b) == IF b = 0 THEN a ELSE Gcd(b, a % b)

fdiv(p, q) ==
    IF q = 0 THEN (IF p = 0 THEN <<0, 0>> ELSE <<1, 0>>)
    ELSE <<p \div Gcd(p, q), q \div Gcd(p, q)>>

\* The quotient taken whatever the divisor.
speedup_unguarded(scalar_ns, other_ns) == fdiv(scalar_ns, other_ns)

\* if other_ns > 0.0 { scalar_ns / other_ns } else { 0.0 }
speedup(scalar_ns, other_ns) ==
    IF other_ns > 0 THEN fdiv(scalar_ns, other_ns) ELSE <<0, 1>>

Note(ev, val) == Append(log, <<ev, val>>)

Init ==
    /\ \E p \in Platforms : arch = p[1] /\ avx = p[2]
    /\ data = <<>>
    /\ pc = "header"
    /\ BenchIdle
    /\ MeansIdle
    /\ StepsIdle
    /\ FmtIdle

\* The title, its rule, the table header and its rule.
PrintHeader ==
    /\ pc = "header"
    /\ printed' = <<"title", "rule", "Size", "rule">>
    /\ pc' = "for"
    /\ UNCHANGED <<arch, avx, data, meansVars, stepVars, fmtVars,
                   k, warm, since, loc, results, row, log>>

\* `for &size in &sizes`: the next size enters benchmark_size, or the loop
\* is left.
ForNext ==
    /\ pc = "for"
    /\ IF k < Len(sizes)
       THEN /\ k' = k + 1
            /\ pc' = "generate"
       ELSE /\ k' = k
            /\ pc' = "legend"
    /\ row' = NoRow
    /\ log' = <<>>
    /\ UNCHANGED <<arch, avx, data, meansVars, stepVars, fmtVars,
                   warm, since, loc, results, printed>>

\* let data: Vec<f32> = ...collect();
Generate ==
    /\ pc = "generate"
    /\ \E d \in generate(sizes[k]) : data' = d /\ log' = Note("generate", Len(d))
    /\ warm' = 0
    /\ pc' = IF 0 < WarmupRounds THEN "warm_scalar" ELSE "start_scalar"
    /\ UNCHANGED <<arch, avx, meansVars, stepVars, fmtVars,
                   k, since, loc, results, printed, row>>

\* let _ = calculate_mean_scalar(&data);
WarmScalar ==
    /\ pc = "warm_scalar"
    /\ log' = Note("warm_scalar", calculate_mean_scalar(data))
    /\ pc' = "warm_simd"
    /\ UNCHANGED <<arch, avx, data, meansVars, stepVars, fmtVars,
                   k, warm, since, loc, results, printed, row>>

\* let _ = calculate_mean_simd(&data);
WarmSimd ==
    /\ pc = "warm_simd"
    /\ log' = Note("warm_simd", calculate_mean_simd(arch, avx, data))
    /\ pc' = "warm_chunks"
    /\ UNCHANGED <<arch, avx, data, meansVars, stepVars, fmtVars,
                   k, warm, since, loc, results, printed, row>>

\* let _ = calculate_mean_chunks(&data); and the end of a warmup round.
WarmChunks ==
    /\ pc = "warm_chunks"
    /\ log' = Note("warm_chunks", calculate_mean_chunks(data))
    /\ warm' = warm + 1
    /\ pc' = IF warm + 1 < WarmupRounds THEN "warm_scalar" ELSE "start_scalar"
    /\ UNCHANGED <<arch, avx, data, meansVars, stepVars, fmtVars,
                   k, since, loc, results, printed, row>>

\* let start = Instant::now();
Start(at, to) ==
    /\ pc = at
    /\ since' = 0
    /\ log' = Note("now", 0)
    /\ pc' = to
    /\ UNCHANGED <<arch, avx, data, meansVars, stepVars, fmtVars,
                   k, warm, loc, results, printed, row>>

\* The timed call of a reducer: the clock moves on while it runs.
Timed(at, to, ev, field, mean) ==
    /\ pc = at
    /\ \E t \in 0..MaxTicks : since' = since + t
    /\ loc' = [loc EXCEPT ![field] = mean]
    /\ log' = Note(ev, mean)
    /\ pc' = to
    /\ UNCHANGED <<arch, avx, data, meansVars, stepVars, fmtVars,
                   k, warm, results, printed, row>>

\* let x_time = start.elapsed();
Elapsed(at, to, field) ==
    /\ pc = at
    /\ loc' = [loc EXCEPT ![field] = since * TickNs]
    /\ log' = Note(field, since * TickNs)
    /\ pc' = to
    /\ UNCHANGED <<arch, avx, data, meansVars, stepVars, fmtVars,
                   k, warm, since, results, printed, row>>

StartScalar == Start("start_scalar", "call_scalar")

TimeScalar ==
    Timed("call_scalar", "elapsed_scalar", "scalar", "scalar_mean",
          calculate_mean_scalar(data))

ElapsedScalar == Elapsed("elapsed_scalar", "start_simd", "scalar_time")

\* The SIMD call timed from the scalar call's `start`.
StartSimd_stale ==
    /\ pc = "start_simd"
    /\ pc' = "call_simd"
    /\ UNCHANGED <<arch, avx, data, meansVars, stepVars, fmtVars, benchVars>>

StartSimd == Start("start_simd", "call_simd")

TimeSimd ==
    Timed("call_simd", "elapsed_simd", "simd", "simd_mean",
          calculate_mean_simd(arch, avx, data))

ElapsedSimd == Elapsed("elapsed_simd", "start_chunks", "simd_time")

StartChunks == Start("start_chunks", "call_chunks")

TimeChunks ==
    Timed("call_chunks", "elapsed_chunks", "chunks", "chunk_mean",
          calculate_mean_chunks(data))

ElapsedChunks == Elapsed("elapsed_chunks", "return", "chunk_time")

\* BenchmarkResults { .. } is returned to main; benchmark_size's locals,
\* the buffer among them, are dropped.
Return ==
    /\ pc = "return"
    /\ results' = loc
    /\ loc' = NoLocals
    /\ data' = <<>>
    /\ log' = Note("return", 0)
    /\ pc' = "row"
    /\ UNCHANGED <<arch, avx, meansVars, stepVars, fmtVars,
                   k, warm, since, printed, row>>

\* The speedups, max_diff and the println! of the row; `results` ends with
\* the loop body.
PrintRow ==
    /\ pc = "row"
    /\ row' = [label |-> format_size(sizes[k]),
               scalar_ns |-> results.scalar_time,
               simd_ns |-> results.simd_time,
               chunk_ns |-> results.chunk_time,
               simd_speedup |-> speedup(results.scalar_time, results.simd_time),
               chunk_speedup |-> speedup(results.scalar_time, results.chunk_time),
               max_diff |-> Max(AbsDiff(results.scalar_mean, results.simd_mean),
                                AbsDiff(results.scalar_mean, results.chunk_mean))]
    /\ printed' = Append(printed, format_size(sizes[k]))
    /\ results' = NoLocals
    /\ log' = Note("print", 0)
    /\ pc' = "for"
    /\ UNCHANGED <<arch, avx, data, meansVars, stepVars, fmtVars,
                   k, warm, since, loc>>

\* The blank line and the four lines of the legend; main returns.
PrintLegend ==
    /\ pc = "legend"
    /\ printed' = printed \o <<"", "Legend:", "- SIMD Speed", "- Chunk Speed",
                               "- Accuracy">>
    /\ pc' = "exit"
    /\ UNCHANGED <<arch, avx, data, meansVars, stepVars, fmtVars,
                   k, warm, since, loc, results, row, log>>

Next ==
    \/ PrintHeader
    \/ ForNext
    \/ Generate
    \/ WarmScalar
    \/ WarmSimd
    \/ WarmChunks
    \/ StartScalar
    \/ TimeScalar
    \/ ElapsedScalar
    \/ StartSimd
    \/ TimeSimd
    \/ ElapsedSimd
    \/ StartChunks
    \/ TimeChunks
    \/ ElapsedChunks
    \/ Return
    \/ PrintRow
    \/ PrintLegend

Spec == Init /\ [][Next]_vars

Kind(j) == log[j][1]
Value(j) == log[j][2]

\* C6: every duration is read right after exactly one call of its own
\* reducer, which itself follows the Instant::now() of its window; nothing
\* is generated or warmed up once a clock has been read, and no duration is
\* negative.
C6_TimingWindows ==
    \A p \in 1..Len(log) :
        /\ Kind(p) = "scalar_time" =>
               p >= 3 /\ Kind(p - 2) = "now" /\ Kind(p - 1) = "scalar"
        /\ Kind(p) = "simd_time" =>
               p >= 3 /\ Kind(p - 2) = "now" /\ Kind(p - 1) = "simd"
        /\ Kind(p) = "chunk_time" =>
               p >= 3 /\ Kind(p - 2) = "now" /\ Kind(p - 1) = "chunks"
        /\ Kind(p) \in {"scalar_time", "simd_time", "chunk_time"} => Value(p) >= 0
        /\ Kind(p) \in {"scalar", "simd", "chunks"} =>
               p >= 2 /\ Kind(p - 1) = "now"
        /\ Kind(p) = "now" =>
               /\ Kind(1) = "generate"
               /\ \A q \in (p + 1)..Len(log) :
                      Kind(q) \notin {"generate", "warm_scalar", "warm_simd",
                                      "warm_chunks"}
               /\ p + 1 <= Len(log) => Kind(p + 1) \in {"scalar", "simd", "chunks"}
               /\ p + 2 <= Len(log) =>
                      Kind(p + 2) \in {"scalar_time", "simd_time", "chunk_time"}

\* The three durations of one size have been read, all different.
C6_Witness ==
    /\ pc = "return"
    /\ loc.scalar_time >= 0
    /\ loc.simd_time > loc.chunk_time
    /\ loc.chunk_time > loc.scalar_time

\* C7: each speedup written is scalar_ns / other_ns when other_ns > 0 and
\* 0 when other_ns = 0, and is never the outcome of a division by zero;
\* 200 ns against 100 ns is 2.
C7_Speedup ==
    row # NoRow =>
        \A c \in {<<row.simd_speedup, row.simd_ns>>,
                  <<row.chunk_speedup, row.chunk_ns>>} :
            /\ c[1][2] > 0
            /\ c[2] > 0 => c[1][1] * c[2] = c[1][2] * row.scalar_ns
            /\ c[2] = 0 => c[1] = <<0, 1>>
            /\ (row.scalar_ns = 200 /\ c[2] = 100) => c[1] = <<2, 1>>

\* A row with a SIMD speedup of 2, a zero chunk duration and a non-zero
\* scalar duration.
C7_Witness ==
    /\ row # NoRow
    /\ row.simd_ns > 0
    /\ row.scalar_ns = 2 * row.simd_ns
    /\ row.simd_speedup = <<2, 1>>
    /\ row.chunk_ns = 0
    /\ row.chunk_speedup = <<0, 1>>

\* C9: no step of a size's benchmark other than the generation and the
\* return changes the buffer; the generation starts from no buffer and
\* yields one of the requested length.
C9_BufferReadOnly ==
    [][/\ pc \notin {"generate", "return"} => data' = data
       /\ pc = "generate" =>
              data = <<>> /\ Len(data') = ModelLen(sizes[k])]_vars

\* All warmup and timed calls of the second size are done and the buffer
\* is still the one generated.
C9_Witness ==
    /\ pc = "return"
    /\ k = 2
    /\ Len(log) = 19
    /\ Len(data) = ModelLen(1000)
    /\ Len(data) = Value(1)

\* The position is one a statement of Next leaves, and that statement's
\* choices are not empty.
HasStep ==
    \/ pc \in {"header", "for", "legend"}
    \/ /\ pc = "generate"
       /\ k \in 1..Len(sizes)
       /\ generate(sizes[k]) # {}
    \/ /\ pc \in {"warm_scalar", "warm_simd", "warm_chunks",
                  "start_scalar", "call_scalar", "elapsed_scalar",
                  "start_simd", "call_simd", "elapsed_simd",
                  "start_chunks", "call_chunks", "elapsed_chunks",
                  "return", "row"}
       /\ k \in 1..Len(sizes)

ExpectedKinds ==
    <<"generate",
      "warm_scalar", "warm_simd", "warm_chunks",
      "warm_scalar", "warm_simd", "warm_chunks",
      "warm_scalar", "warm_simd", "warm_chunks",
      "now", "scalar", "scalar_time",
      "now", "simd", "simd_time",
      "now", "chunks", "chunk_time",
      "return", "print">>

ExpectedLabels ==
    << <<"5", "0", "0">>, <<"1", "K">>, <<"5", "0", "K">>, <<"1", "M">>,
       <<"1", "0", "0", "M">> >>

ExpectedHead == <<"title", "rule", "Size", "rule">>

\* C10: for the sizes 500, 1000, 50000, 1000000, 100000000 in this order
\* the harness generates, runs three warmup rounds of scalar, SIMD, chunks,
\* times scalar, SIMD, chunks once each, returns a record holding the timed
\* calls' means and durations, writes one row, and starts the next size
\* with nothing left of the previous one; after the fifth row it writes the
\* legend and stops.
C10_Sweep ==
    /\ Len(log) <= Len(ExpectedKinds)
    /\ \A j \in 1..Len(log) : Kind(j) = ExpectedKinds[j]
    /\ pc = "row" =>
           /\ Len(log) = 20
           /\ results.scalar_mean = Value(12) /\ results.scalar_time = Value(13)
           /\ results.simd_mean = Value(15) /\ results.simd_time = Value(16)
           /\ results.chunk_mean = Value(18) /\ results.chunk_time = Value(19)
    /\ row # NoRow =>
           /\ Len(log) = 21
           /\ row.label = ExpectedLabels[k]
           /\ row.scalar_ns = Value(13)
           /\ row.simd_ns = Value(16)
           /\ row.chunk_ns = Value(19)
    /\ pc = "header" => printed = <<>> /\ k = 0
    /\ pc = "for" => printed = ExpectedHead \o SubSeq(ExpectedLabels, 1, k)
    /\ pc \notin {"header", "for", "legend", "exit"} =>
           /\ k \in 1..5
           /\ sizes[k] = <<500, 1000, 50000, 1000000, 100000000>>[k]
           /\ printed = ExpectedHead \o SubSeq(ExpectedLabels, 1, k - 1)
    /\ pc = "generate" =>
           /\ log = <<>> /\ data = <<>>
           /\ loc = NoLocals /\ results = NoLocals /\ row = NoRow
    /\ pc = "legend" => k = 5 /\ printed = ExpectedHead \o ExpectedLabels
    /\ pc = "exit" =>
           /\ k = 5
           /\ Len(printed) = 14
           /\ SubSeq(printed, 1, 9) = ExpectedHead \o ExpectedLabels
    /\ pc # "exit" => HasStep

\* The sweep is over: five rows and the legend are written.
C10_Witness ==
    /\ pc = "exit"
    /\ k = 5
    /\ printed[9] = <<"1", "0", "0", "M">>
    /\ Len(printed) = 14

====
